---- MODULE Spec2Model ----
(***************************************************************************)
(* The Universal Machine interpreter of src/src/um.rs (handle_input) with  *)
(* the field decoder of src/src/rumdis.rs.                                 *)
(*                                                                         *)
(* A u32 is kept as its two 16-bit halves, [hi, lo], because the model     *)
(* checker's integers are 32-bit signed; every operation on words is       *)
(* computed on the halves modulo 2^32.                                     *)
(***************************************************************************)
EXTENDS Integers, Sequences, FiniteSets, TLC

\* ------------------------------------------------------------ bounds
\* Longest program image over the full instruction alphabet.
MaxProg == 2
\* Longest program image over the segment-lifecycle alphabet.
MaxMemProg == 5
\* Instruction cycles explored per run.
MaxCycles == 8
\* Longest segment a map may allocate in the model.
MaxSegLen == 2
\* Bytes waiting on standard input.
MaxIn == 2

\* ------------------------------------------------------------ u32 words
Half == 2^16
Byte == 2^8

W(h, l) == [hi |-> h, lo |-> l]
Zero == W(0, 0)
\* u32::MAX
U32Max == W(Half - 1, Half - 1)
\* a small natural number as a u32 (n < 2^31)
FromNat(n) == W(n \div Half, n % Half)
\* `as usize` followed by indexing a Vec of length len (len < 2^16)
InRange(w, len) == w.hi = 0 /\ w.lo < len
\* unsigned comparison
Geq(x, y) == x.hi > y.hi \/ (x.hi = y.hi /\ x.lo >= y.lo)

\* u32::wrapping_add
WrappingAdd(x, y) ==
    LET l == x.lo + y.lo
    IN  W((x.hi + y.hi + (l \div Half)) % Half, l % Half)

\* the low 16 bits of the product of two 16-bit numbers
MulLow16(x, y) == ((((((x \div Byte) * y) % Byte) * Byte) + ((x % Byte) * y)) % Half)
\* the product of two 16-bit numbers, as a u32
Mul16(x, y) ==
    LET p1 == (x \div Byte) * y
        p0 == (x % Byte) * y
        l  == ((p1 % Byte) * Byte) + (p0 % Half)
    IN  W(((p1 \div Byte) + (p0 \div Half) + (l \div Half)) % Half, l % Half)

\* u32::wrapping_mul
WrappingMul(x, y) ==
    LET ll == Mul16(x.lo, y.lo)
    IN  W((ll.hi + MulLow16(x.hi, y.lo) + MulLow16(x.lo, y.hi)) % Half, ll.lo)

\* the value of a u32 below 2^31 as an integer
ToInt(w) == w.hi * Half + w.lo
Small(w) == w.hi < Half \div 2
\* w >> 1
Shr1(w) == W(w.hi \div 2, ((w.hi % 2) * (Half \div 2)) + (w.lo \div 2))

\* u32 / u32 (truncating, unsigned), y # 0
Div(x, y) ==
    IF ~Small(y) THEN (IF Geq(x, y) THEN W(0, 1) ELSE Zero)
    ELSE IF Small(x) THEN FromNat(ToInt(x) \div ToInt(y))
    ELSE LET d  == ToInt(y)
             xh == ToInt(Shr1(x))
             q1 == xh \div d
             r1 == xh % d
             t  == IF r1 + (x.lo % 2) >= d - r1 THEN 1 ELSE 0
         IN  W(q1 \div (Half \div 2), ((q1 % (Half \div 2)) * 2) + t)

RECURSIVE And16(_, _, _)
\* bitwise AND of two n-bit numbers
And16(x, y, n) ==
    IF n = 0 THEN 0
    ELSE ((x % 2) * (y % 2)) + (2 * And16(x \div 2, y \div 2, n - 1))

\* !(x & y)
Nand(x, y) == W(Half - 1 - And16(x.hi, y.hi, 16), Half - 1 - And16(x.lo, y.lo, 16))

\* ------------------------------------------------------------ decoder
\* variant: selector A is read three bits too high
RAFromBit9 == [width |-> 3, lsb |-> 9]

RA == [width |-> 3, lsb |-> 6]
RB == [width |-> 3, lsb |-> 3]
RC == [width |-> 3, lsb |-> 0]
RL == [width |-> 3, lsb |-> 25]
VL == [width |-> 25, lsb |-> 0]
OP == [width |-> 4, lsb |-> 28]

mask(bits) == (2^bits) - 1

\* (instruction >> field.lsb) & mask(field.width), as an integer below 2^25
get(field, instruction) ==
    IF field.lsb >= 16
    THEN (instruction.hi \div (2^(field.lsb - 16))) % (mask(field.width) + 1)
    ELSE LET over == IF field.lsb + field.width > 16
                     THEN field.lsb + field.width - 16 ELSE 0
         IN  (((instruction.hi % (2^over)) * (2^(16 - field.lsb)))
               + (instruction.lo \div (2^field.lsb))) % (mask(field.width) + 1)

\* ------------------------------------------------------------ instruction words
\* a standard instruction word: opcode in bits 31..28, A, B, C in bits 8..0
Std(op, a, b, c) == W(op * 4096, (a * 64) + (b * 8) + c)
\* a load-immediate word: opcode 13, register in bits 27..25, value in bits 24..0
LoadImm(rl, vl) == W((13 * 4096) + (rl * 512) + (vl \div Half), vl % Half)

\* ------------------------------------------------------------ inputs
\* the full instruction alphabet: every opcode 0..13 and an invalid one
Words ==
    { Std(0, 3, 2, 2),      \* if r2 # 0 then r3 := r2
      Std(1, 3, 1, 0),      \* r3 := m[r1][r0]
      Std(2, 1, 0, 2),      \* m[r1][r0] := r2
      Std(3, 2, 2, 2),      \* r2 := r2 + r2
      Std(4, 2, 2, 2),      \* r2 := r2 * r2
      Std(5, 3, 2, 1),      \* r3 := r2 / r1
      Std(6, 2, 0, 0),      \* r2 := ~(r0 & r0)
      Std(7, 0, 0, 0),      \* halt
      Std(8, 0, 1, 2),      \* r1 := map(r2)
      Std(9, 0, 0, 1),      \* unmap(r1)
      Std(10, 0, 0, 2),     \* output r2
      Std(11, 0, 0, 2),     \* r2 := input
      Std(12, 0, 0, 1),     \* load program m[r0], pc := r1
      Std(12, 0, 1, 0),     \* load program m[r1], pc := r0
      LoadImm(2, 1),        \* r2 := 1
      LoadImm(1, 5),        \* r1 := 5
      Std(15, 0, 0, 0) }    \* no instruction

\* the segment-lifecycle alphabet
MemWords ==
    { LoadImm(2, 1), Std(8, 0, 1, 2), Std(2, 1, 0, 2), Std(9, 0, 0, 1), Std(1, 3, 1, 0) }

\* longer programs: build a segment, load it as the program, run it
Catalogue ==
    { \* r2 := 1; m[r1][r0] := r2; r1 := map(r2); r4 := m[r0][r2]; m[r1][r0] := r4;
      \* load program m[r1], pc := r0  -- then the copy stores into segment r1
      << LoadImm(2, 1), Std(2, 1, 0, 2), Std(8, 0, 1, 2), Std(1, 4, 0, 2),
         Std(2, 1, 0, 4), Std(12, 0, 1, 0) >>,
      \* the same, the copy storing into segment zero
      << LoadImm(2, 1), Std(2, 0, 0, 2), Std(8, 0, 1, 2), Std(1, 4, 0, 2),
         Std(2, 1, 0, 4), Std(12, 0, 1, 0) >>,
      \* r2 := 1; no instruction; output r2; halt
      << LoadImm(2, 1), Std(15, 0, 0, 0), Std(10, 0, 0, 2), Std(7, 0, 0, 0) >>,
      \* echo two bytes, read a third time, halt
      << Std(11, 0, 0, 2), Std(10, 0, 0, 2), Std(11, 0, 0, 2), Std(10, 0, 0, 2),
         Std(11, 0, 0, 2), Std(7, 0, 0, 0) >>,
      \* r2 := 0xFFFFFFFF; r1 := 5; r3 := r2 / r1; halt
      << Std(6, 2, 0, 0), LoadImm(1, 5), Std(5, 3, 2, 1), Std(7, 0, 0, 0) >>,
      \* r7 := 0x1FFFE53 (bits 8..0 read as selectors would name r1, r2, r3); halt
      << LoadImm(7, 33554003), Std(7, 0, 0, 0) >>,
      \* r1 := map; r3 := map; unmap(r1); unmap(r3); r4 := map; r5 := map
      << Std(8, 0, 1, 2), Std(8, 0, 3, 2), Std(9, 0, 0, 1), Std(9, 0, 0, 3),
         Std(8, 0, 4, 2), Std(8, 0, 5, 2) >>,
      \* r2 := 4; r5 := 5; r4 := m[r0][r5]; m[r0][r2] := r4; output r2; halt
      \* -- the store puts the halt word over the output word ahead of it
      << LoadImm(2, 4), LoadImm(5, 5), Std(1, 4, 0, 5), Std(2, 0, 2, 4),
         Std(10, 0, 0, 2), Std(7, 0, 0, 0) >> }

SeqsUpTo(S, n) == UNION { [1..k -> S] : k \in 0..n }

\* a standard instruction word with every bit of 27..9 set
Junk(w) == W(w.hi + 4095, w.lo + 65024)
\* a program with the unused bits of its standard instruction words set
JunkProg(p) == [i \in DOMAIN p |-> IF get(OP, p[i]) <= 12 THEN Junk(p[i]) ELSE p[i]]

\* the program images handed to handle_input
Programs ==
    LET clean == SeqsUpTo(Words, MaxProg) \cup Catalogue
    IN  clean \cup SeqsUpTo(MemWords, MaxMemProg) \cup { JunkProg(p) : p \in clean }

\* the i-th byte waiting on standard input
InputByte(i) == (65 + (i - 1) * 95) % Byte
\* standard input: empty, or MaxIn bytes
Streams == { [i \in 1..n |-> InputByte(i)] : n \in {0, MaxIn} }

\* ------------------------------------------------------------ state
VARIABLES
    instructions,        \* handle_input's parameter: the program image as loaded
    registers,           \* VM.registers: eight u32
    memory,              \* VM.memory: the segment table, memory[1] is segment zero
    unmap_index_values,  \* VM.unmap_index_values: the free list, last pushed last
    program_counter,     \* VM.program_counter
    stdin,               \* the bytes not yet read from standard input
    stdout,              \* the bytes written to standard output
    status,              \* "init" before the loop, "running", "halted"
    exit_code,           \* the process's exit status once halted, -1 before
    cycles,              \* instruction cycles started
    mapped,              \* history: identifiers returned by map and not unmapped since
    loaded,              \* history: the identifier last cloned into segment zero
    prev                 \* history: the state at the start of the last cycle

vars == << instructions, registers, memory, unmap_index_values, program_counter, stdin, stdout,
           status, exit_code, cycles, mapped, loaded, prev >>

Regs == 0..7

\* the state a cycle starts from, and the word it fetched
Snapshot(ran, fetched, word) ==
    [ ran |-> ran, fetched |-> fetched, instruction |-> word,
      registers |-> registers, memory |-> memory,
      unmap_index_values |-> unmap_index_values,
      program_counter |-> program_counter,
      stdin |-> stdin, stdout |-> stdout, mapped |-> mapped,
      loaded |-> loaded, status |-> status ]

Init ==
    /\ instructions \in Programs
    /\ registers = [r \in Regs |-> Zero]
    /\ memory = << instructions >>
    /\ unmap_index_values = << >>
    /\ program_counter = Zero
    /\ stdin \in Streams
    /\ stdout = << >>
    /\ status = "init"
    /\ exit_code = -1
    /\ cycles = 0
    /\ mapped = { Zero }
    /\ loaded = Zero
    /\ prev = [ ran |-> FALSE, fetched |-> FALSE, instruction |-> Zero,
                registers |-> registers, memory |-> memory,
                unmap_index_values |-> unmap_index_values,
                program_counter |-> program_counter,
                stdin |-> stdin, stdout |-> stdout, mapped |-> mapped,
                loaded |-> loaded, status |-> status ]

\* ------------------------------------------------------------ fetch and decode
\* um.memory[0][um.program_counter] does not panic
PcInBounds == InRange(program_counter, Len(memory[1]))
\* variant: the word is fetched from the image as loaded, not from segment zero
instructionFromImage ==
    IF program_counter.lo < Len(instructions)
    THEN instructions[program_counter.lo + 1]
    ELSE memory[1][program_counter.lo + 1]

instruction == memory[1][program_counter.lo + 1]
opcode == get(OP, instruction)
a == get(RA, instruction)
b == get(RB, instruction)
c == get(RC, instruction)

\* um.program_counter += 1
NextPc == W(program_counter.hi, program_counter.lo + 1)

\* a Vec indexed by a register cast to usize
At(vec, w) == vec[w.lo + 1]

\* panic!: the process ends with a non-zero status
Panic == status' = "halted" /\ exit_code' = 101
\* the loop goes round again
Continue == UNCHANGED << status, exit_code >>

\* a cycle of the loop that fetches a word with opcode k
Cycle(k) ==
    /\ status = "running"
    /\ cycles < MaxCycles
    /\ PcInBounds
    /\ opcode = k
    /\ cycles' = cycles + 1
    /\ prev' = Snapshot(TRUE, TRUE, instruction)
    /\ UNCHANGED instructions

\* ------------------------------------------------------------ before the loop
Start ==
    /\ status = "init"
    /\ IF program_counter # Zero
       THEN Panic
       ELSE IF ~PcInBounds
       THEN Panic
       ELSE IF get(OP, instruction) > 13
       THEN Panic
       ELSE status' = "running" /\ UNCHANGED exit_code
    /\ UNCHANGED << instructions, registers, memory, unmap_index_values,
                    program_counter, stdin, stdout, cycles, mapped, loaded, prev >>

\* ------------------------------------------------------------ the loop
\* variant: running off the end of segment zero ends the run like a halt
FetchFaultExitsClean ==
    /\ status = "running"
    /\ cycles < MaxCycles
    /\ ~PcInBounds
    /\ cycles' = cycles + 1
    /\ prev' = Snapshot(TRUE, FALSE, Zero)
    /\ status' = "halted"
    /\ exit_code' = 0
    /\ UNCHANGED << instructions, registers, memory, unmap_index_values,
                    program_counter, stdin, stdout, mapped, loaded >>

\* let instruction = um.memory[0][um.program_counter] panics
FetchFault ==
    /\ status = "running"
    /\ cycles < MaxCycles
    /\ ~PcInBounds
    /\ cycles' = cycles + 1
    /\ prev' = Snapshot(TRUE, FALSE, Zero)
    /\ Panic
    /\ UNCHANGED << instructions, registers, memory, unmap_index_values,
                    program_counter, stdin, stdout, mapped, loaded >>

\* Conditional Move
Op0 ==
    /\ Cycle(0)
    /\ program_counter' = NextPc
    /\ registers' = IF registers[c] # Zero
                    THEN [registers EXCEPT ![a] = registers[b]]
                    ELSE registers
    /\ Continue
    /\ UNCHANGED << memory, unmap_index_values, stdin, stdout, mapped, loaded >>

\* Segmented Load
Op1 ==
    /\ Cycle(1)
    /\ program_counter' = NextPc
    /\ IF InRange(registers[b], Len(memory))
          /\ InRange(registers[c], Len(At(memory, registers[b])))
       THEN /\ registers' = [registers EXCEPT
                               ![a] = At(At(memory, registers[b]), registers[c])]
            /\ Continue
       ELSE /\ UNCHANGED registers
            /\ Panic
    /\ UNCHANGED << memory, unmap_index_values, stdin, stdout, mapped, loaded >>

\* um.memory[s][i] = v
Store(mem, s, i, v) == [mem EXCEPT ![s.lo + 1][i.lo + 1] = v]

\* Segmented Store
Op2 ==
    /\ Cycle(2)
    /\ program_counter' = NextPc
    /\ IF InRange(registers[a], Len(memory))
          /\ InRange(registers[b], Len(At(memory, registers[a])))
       THEN /\ memory' = Store(memory, registers[a], registers[b], registers[c])
            /\ Continue
       ELSE /\ UNCHANGED memory
            /\ Panic
    /\ UNCHANGED << registers, unmap_index_values, stdin, stdout, mapped, loaded >>

\* variant: the sum is checked, an overflow panics
Op3Checked ==
    /\ Cycle(3)
    /\ program_counter' = NextPc
    /\ IF Geq(WrappingAdd(registers[b], registers[c]), registers[b])
       THEN /\ registers' = [registers EXCEPT
                               ![a] = WrappingAdd(registers[b], registers[c])]
            /\ Continue
       ELSE /\ UNCHANGED registers
            /\ Panic
    /\ UNCHANGED << memory, unmap_index_values, stdin, stdout, mapped, loaded >>

\* Addition
Op3 ==
    /\ Cycle(3)
    /\ program_counter' = NextPc
    /\ registers' = [registers EXCEPT ![a] = WrappingAdd(registers[b], registers[c])]
    /\ Continue
    /\ UNCHANGED << memory, unmap_index_values, stdin, stdout, mapped, loaded >>

\* Multiplication
Op4 ==
    /\ Cycle(4)
    /\ program_counter' = NextPc
    /\ registers' = [registers EXCEPT ![a] = WrappingMul(registers[b], registers[c])]
    /\ Continue
    /\ UNCHANGED << memory, unmap_index_values, stdin, stdout, mapped, loaded >>

\* variant: the operands are taken in the other order
Op5Swapped ==
    /\ Cycle(5)
    /\ program_counter' = NextPc
    /\ IF registers[b] = Zero
       THEN /\ UNCHANGED registers
            /\ Panic
       ELSE /\ registers' = [registers EXCEPT ![a] = Div(registers[c], registers[b])]
            /\ Continue
    /\ UNCHANGED << memory, unmap_index_values, stdin, stdout, mapped, loaded >>

\* Division
Op5 ==
    /\ Cycle(5)
    /\ program_counter' = NextPc
    /\ IF registers[c] = Zero
       THEN /\ UNCHANGED registers
            /\ Panic
       ELSE /\ registers' = [registers EXCEPT ![a] = Div(registers[b], registers[c])]
            /\ Continue
    /\ UNCHANGED << memory, unmap_index_values, stdin, stdout, mapped, loaded >>

\* Bitwise NAND
Op6 ==
    /\ Cycle(6)
    /\ program_counter' = NextPc
    /\ registers' = [registers EXCEPT ![a] = Nand(registers[b], registers[c])]
    /\ Continue
    /\ UNCHANGED << memory, unmap_index_values, stdin, stdout, mapped, loaded >>

\* variant: the halt opcode leaves the loop running
Op7Continues ==
    /\ Cycle(7)
    /\ program_counter' = NextPc
    /\ Continue
    /\ UNCHANGED << registers, memory, unmap_index_values, stdin, stdout, mapped, loaded >>

\* Halt: std::process::exit(0)
Op7 ==
    /\ Cycle(7)
    /\ program_counter' = NextPc
    /\ status' = "halted"
    /\ exit_code' = 0
    /\ UNCHANGED << registers, memory, unmap_index_values, stdin, stdout, mapped, loaded >>

\* vec![0_u32; length]
NewSegment(length) == [i \in 1..length.lo |-> Zero]

\* variant: a reused identifier keeps the sequence it held
ReplaceSegmentKept(mem, id, seg) == mem

\* um.memory[id] = new_segment
ReplaceSegment(mem, id, seg) == [mem EXCEPT ![id.lo + 1] = seg]

\* variant: the oldest free identifier is reused first
Op8Fifo ==
    /\ Cycle(8)
    /\ InRange(registers[c], MaxSegLen + 1)
    /\ program_counter' = NextPc
    /\ IF Len(unmap_index_values) # 0
       THEN LET id == unmap_index_values[1]
            IN  /\ unmap_index_values' = Tail(unmap_index_values)
                /\ registers' = [registers EXCEPT ![b] = id]
                /\ IF InRange(id, Len(memory))
                   THEN /\ memory' = ReplaceSegment(memory, id, NewSegment(registers[c]))
                        /\ mapped' = mapped \cup { id }
                        /\ Continue
                   ELSE /\ UNCHANGED << memory, mapped >>
                        /\ Panic
       ELSE /\ memory' = Append(memory, NewSegment(registers[c]))
            /\ registers' = [registers EXCEPT ![b] = FromNat(Len(memory') - 1)]
            /\ mapped' = mapped \cup { FromNat(Len(memory') - 1) }
            /\ UNCHANGED unmap_index_values
            /\ Continue
    /\ UNCHANGED << stdin, stdout, loaded >>

\* Map Segment
Op8 ==
    /\ Cycle(8)
    /\ InRange(registers[c], MaxSegLen + 1)
    /\ program_counter' = NextPc
    /\ IF Len(unmap_index_values) # 0
       THEN LET id == unmap_index_values[Len(unmap_index_values)]
            IN  /\ unmap_index_values' =
                       SubSeq(unmap_index_values, 1, Len(unmap_index_values) - 1)
                /\ registers' = [registers EXCEPT ![b] = id]
                /\ IF InRange(id, Len(memory))
                   THEN /\ memory' = ReplaceSegment(memory, id, NewSegment(registers[c]))
                        /\ mapped' = mapped \cup { id }
                        /\ Continue
                   ELSE /\ UNCHANGED << memory, mapped >>
                        /\ Panic
       ELSE /\ memory' = Append(memory, NewSegment(registers[c]))
            /\ registers' = [registers EXCEPT ![b] = FromNat(Len(memory') - 1)]
            /\ mapped' = mapped \cup { FromNat(Len(memory') - 1) }
            /\ UNCHANGED unmap_index_values
            /\ Continue
    /\ UNCHANGED << stdin, stdout, loaded >>

\* variant: the test for identifier 0 is missing
UnmapRefusedNever(id) == FALSE

\* if um.registers[c] as usize == 0
UnmapRefused(id) == id = Zero

\* Unmap Segment
Op9 ==
    /\ Cycle(9)
    /\ program_counter' = NextPc
    /\ IF UnmapRefused(registers[c])
       THEN /\ UNCHANGED << unmap_index_values, mapped >>
            /\ Panic
       ELSE /\ unmap_index_values' = Append(unmap_index_values, registers[c])
            /\ mapped' = mapped \ { registers[c] }
            /\ Continue
    /\ UNCHANGED << registers, memory, stdin, stdout, loaded >>

\* variant: the value is cast to a byte (`as u8`), never refused
FitsU8Always(w) == TRUE

\* u8::try_from(value) is Ok
FitsU8(w) == w.hi = 0 /\ w.lo < Byte

\* Output
Op10 ==
    /\ Cycle(10)
    /\ program_counter' = NextPc
    /\ IF FitsU8(registers[c])
       THEN /\ stdout' = Append(stdout, registers[c].lo)
            /\ Continue
       ELSE /\ UNCHANGED stdout
            /\ Panic
    /\ UNCHANGED << registers, memory, unmap_index_values, stdin, mapped, loaded >>

\* variant: end of input loads 0
Op11EofZero ==
    /\ Cycle(11)
    /\ program_counter' = NextPc
    /\ IF Len(stdin) # 0
       THEN /\ registers' = [registers EXCEPT ![c] = FromNat(Head(stdin))]
            /\ stdin' = Tail(stdin)
       ELSE /\ registers' = [registers EXCEPT ![c] = Zero]
            /\ UNCHANGED stdin
    /\ Continue
    /\ UNCHANGED << memory, unmap_index_values, stdout, mapped, loaded >>

\* Input
Op11 ==
    /\ Cycle(11)
    /\ program_counter' = NextPc
    /\ IF Len(stdin) # 0
       THEN /\ registers' = [registers EXCEPT ![c] = FromNat(Head(stdin))]
            /\ stdin' = Tail(stdin)
       ELSE /\ registers' = [registers EXCEPT ![c] = U32Max]
            /\ UNCHANGED stdin
    /\ Continue
    /\ UNCHANGED << memory, unmap_index_values, stdout, mapped, loaded >>

\* variant: the copy goes from segment zero to segment id
LoadProgramReversed(mem, id) == [mem EXCEPT ![id.lo + 1] = mem[1]]

\* um.memory[0] = um.memory[id].to_vec()
LoadProgram(mem, id) == [mem EXCEPT ![1] = At(mem, id)]

\* variant: the segment to load is named by register C
Op12SourceFromC ==
    /\ Cycle(12)
    /\ program_counter' = registers[c]
    /\ IF registers[c] # Zero
       THEN IF InRange(registers[c], Len(memory))
            THEN /\ memory' = LoadProgram(memory, registers[c])
                 /\ loaded' = registers[c]
                 /\ Continue
            ELSE /\ UNCHANGED << memory, loaded >>
                 /\ Panic
       ELSE /\ UNCHANGED << memory, loaded >>
            /\ Continue
    /\ UNCHANGED << registers, unmap_index_values, stdin, stdout, mapped >>

\* variant: the program counter is assigned before the increment
Op12ThenIncrement ==
    /\ Cycle(12)
    /\ program_counter' = W(registers[c].hi, registers[c].lo + 1)
    /\ IF registers[b] # Zero
       THEN IF InRange(registers[b], Len(memory))
            THEN /\ memory' = LoadProgram(memory, registers[b])
                 /\ loaded' = registers[b]
                 /\ Continue
            ELSE /\ UNCHANGED << memory, loaded >>
                 /\ Panic
       ELSE /\ UNCHANGED << memory, loaded >>
            /\ Continue
    /\ UNCHANGED << registers, unmap_index_values, stdin, stdout, mapped >>

\* Load Program
Op12 ==
    /\ Cycle(12)
    /\ program_counter' = registers[c]
    /\ IF registers[b] # Zero
       THEN IF InRange(registers[b], Len(memory))
            THEN /\ memory' = LoadProgram(memory, registers[b])
                 /\ loaded' = registers[b]
                 /\ Continue
            ELSE /\ UNCHANGED << memory, loaded >>
                 /\ Panic
       ELSE /\ UNCHANGED << memory, loaded >>
            /\ Continue
    /\ UNCHANGED << registers, unmap_index_values, stdin, stdout, mapped >>

\* variant: the destination is read as register selector A (bits 8..6)
Op13RegisterFromA ==
    /\ Cycle(13)
    /\ program_counter' = NextPc
    /\ registers' = [registers EXCEPT ![a] = FromNat(get(VL, instruction))]
    /\ Continue
    /\ UNCHANGED << memory, unmap_index_values, stdin, stdout, mapped, loaded >>

\* Load Value
Op13 ==
    /\ Cycle(13)
    /\ program_counter' = NextPc
    /\ registers' = [registers EXCEPT
                       ![get(RL, instruction)] = FromNat(get(VL, instruction))]
    /\ Continue
    /\ UNCHANGED << memory, unmap_index_values, stdin, stdout, mapped, loaded >>

\* an opcode above 13 matches none of the loop's tests
OpNone ==
    /\ \E k \in { 14, 15 } : Cycle(k)
    /\ program_counter' = NextPc
    /\ Continue
    /\ UNCHANGED << registers, memory, unmap_index_values, stdin, stdout, mapped, loaded >>

Next ==
    \/ Start
    \/ FetchFault
    \/ Op0
    \/ Op1
    \/ Op2
    \/ Op3
    \/ Op4
    \/ Op5
    \/ Op6
    \/ Op7
    \/ Op8
    \/ Op9
    \/ Op10
    \/ Op11
    \/ Op12
    \/ Op13
    \/ OpNone

Spec == Init /\ [][Next]_vars

\* ------------------------------------------------------------ shape
TypeOK ==
    /\ DOMAIN registers = Regs
    /\ Len(memory) >= 1
    /\ status \in { "init", "running", "halted" }
    /\ cycles \in 0..MaxCycles

\* ------------------------------------------------------------ the last cycle
\* the last cycle fetched a word with opcode k and ran its body
Exec(k) == prev.ran /\ prev.fetched /\ get(OP, prev.instruction) = k
\* the register selectors of the word the last cycle fetched
PA == get(RA, prev.instruction)
PB == get(RB, prev.instruction)
PC == get(RC, prev.instruction)
\* the engine stopped on a fault
Faulted == status = "halted" /\ exit_code # 0
\* the segments other than segment zero are those of the start of the last cycle
OthersUnchanged ==
    /\ Len(memory) = Len(prev.memory)
    /\ \A j \in 2..Len(memory) : memory[j] = prev.memory[j]

\* ------------------------------------------------------------ claims

\* C1: whenever a cycle fetches a word whose opcode is above 13, the engine
\* stops on a fault (halted, non-zero status).
C1_InvalidOpcodeFaults ==
    (prev.ran /\ prev.fetched /\ get(OP, prev.instruction) > 13) => Faulted

\* C2: an unmap of an identifier that is not mapped stops the engine on a
\* fault and leaves the free list as it was.
C2_UnmapOfUnmappedFaults ==
    (Exec(9) /\ prev.registers[PC] \notin prev.mapped)
        => (Faulted /\ unmap_index_values = prev.unmap_index_values)

\* C3: a segmented load or store that names an identifier that is not mapped
\* stops the engine on a fault; no register and no word of memory changes.
C3_AccessToUnmappedFaults ==
    /\ (Exec(1) /\ prev.registers[PB] \notin prev.mapped)
          => (Faulted /\ registers = prev.registers /\ memory = prev.memory)
    /\ (Exec(2) /\ prev.registers[PA] \notin prev.mapped)
          => (Faulted /\ registers = prev.registers /\ memory = prev.memory)

\* C4: the identifier a map places in R[B] identifies no segment that was
\* mapped when the map ran.
C4_MapReturnsUnmappedId ==
    (Exec(8) /\ ~Faulted) => registers[PB] \notin prev.mapped

\* C5: every identifier on the free list is an index into the segment table.
C5_FreeListIndexesTable ==
    \A i \in 1..Len(unmap_index_values) :
        InRange(unmap_index_values[i], Len(memory))

\* C6: segment zero is never unmapped: an unmap of identifier 0 faults and
\* pushes nothing, identifier 0 is never on the free list, and a map never
\* places identifier 0 in R[B].
C6_SegmentZeroNeverUnmapped ==
    /\ (Exec(9) /\ prev.registers[PC] = Zero)
          => (Faulted /\ unmap_index_values = prev.unmap_index_values)
    /\ \A i \in 1..Len(unmap_index_values) : unmap_index_values[i] # Zero
    /\ Exec(8) => registers[PB] # Zero

C6_Witness ==
    Exec(9) /\ prev.registers[PC] = Zero /\ Faulted

\* C7: right after a map with R[C] = n returns id, the segment at id has n
\* words, all 0, whether id is a new tail index or a reused identifier.
C7_MappedSegmentZeroFilled ==
    (Exec(8) /\ ~Faulted) =>
        /\ InRange(registers[PB], Len(memory))
        /\ Len(At(memory, registers[PB])) = prev.registers[PC].lo
        /\ prev.registers[PC].hi = 0
        /\ \A i \in 1..Len(At(memory, registers[PB])) :
               At(memory, registers[PB])[i] = Zero

\* a reused identifier whose old sequence held a non-zero word
C7_Witness ==
    /\ Exec(8) /\ ~Faulted
    /\ Len(prev.unmap_index_values) # 0
    /\ \E i \in 1..Len(At(prev.memory, registers[PB])) :
           At(prev.memory, registers[PB])[i] # Zero

\* C8: a cycle that starts with the program counter at or past the end of
\* segment zero stops the engine on a fault and runs no instruction body;
\* so does an empty program image.
C8_PcOutOfBoundsFaults ==
    /\ (prev.ran /\ ~InRange(prev.program_counter, Len(prev.memory[1])))
          => /\ Faulted
             /\ registers = prev.registers
             /\ memory = prev.memory
             /\ unmap_index_values = prev.unmap_index_values
             /\ program_counter = prev.program_counter
             /\ stdin = prev.stdin
             /\ stdout = prev.stdout
    /\ (~prev.ran /\ status # "init" /\ Len(memory[1]) = 0)
          => (Faulted /\ cycles = 0)

\* a jump past the end of segment zero, then the fetch
C8_Witness ==
    /\ prev.ran
    /\ ~InRange(prev.program_counter, Len(prev.memory[1]))
    /\ prev.program_counter.lo > Len(prev.memory[1])
    /\ Faulted

\* C9: a load program with R[B] = k # 0 makes segment zero equal to segment
\* k and changes no other segment; a store into a segment other than zero
\* leaves segment zero as it was, and a store into segment zero leaves every
\* other segment as it was.
C9_CloneIndependence ==
    /\ (Exec(12) /\ prev.registers[PB] # Zero /\ ~Faulted)
          => /\ memory[1] = At(prev.memory, prev.registers[PB])
             /\ OthersUnchanged
    /\ (Exec(2) /\ prev.registers[PA] # Zero) => memory[1] = prev.memory[1]
    /\ (Exec(2) /\ prev.registers[PA] = Zero) => OthersUnchanged

\* after a clone of segment k, a store that changed segment k
C9_Witness ==
    /\ Exec(2) /\ ~Faulted
    /\ prev.loaded # Zero
    /\ prev.registers[PA] = prev.loaded
    /\ memory # prev.memory
    /\ memory[1] # At(memory, prev.loaded)

\* C10: a load program with R[B] = 0 changes the program counter only.
C10_JumpIdentity ==
    (Exec(12) /\ prev.registers[PB] = Zero)
        => /\ memory = prev.memory
           /\ registers = prev.registers
           /\ unmap_index_values = prev.unmap_index_values
           /\ program_counter = prev.registers[PC]
           /\ stdin = prev.stdin
           /\ stdout = prev.stdout
           /\ status = "running"

\* a jump, not to the next word, with several segments mapped
C10_Witness ==
    /\ Exec(12)
    /\ prev.registers[PB] = Zero
    /\ Len(memory) > 1
    /\ program_counter # W(prev.program_counter.hi, prev.program_counter.lo + 1)


\* C11: the loop is running or halted; opcode 7 halts it with status zero, a
\* fault halts it with a non-zero status, any other cycle leaves it running;
\* status zero comes from opcode 7 only, and once halted nothing changes.
C11_RunningOrHalted ==
    /\ [](/\ status \in { "init", "running", "halted" }
          /\ (status = "halted") = (exit_code # -1)
          /\ prev.ran => prev.status = "running"
          /\ Exec(7) => (status = "halted" /\ exit_code = 0)
          /\ (prev.ran /\ ~Exec(7)) => (status = "running" \/ Faulted)
          /\ (status = "halted" /\ exit_code = 0) => Exec(7))
    /\ [][status = "halted" => UNCHANGED vars]_vars

\* a halt after other instructions
C11_Witness ==
    Exec(7) /\ status = "halted" /\ exit_code = 0 /\ cycles > 1


\* C12: an output of R[C] in 0..255 appends that one byte to standard output
\* and the loop runs on; an output of R[C] > 255 faults and emits nothing; no
\* other cycle writes to standard output.
C12_OutputOneByte ==
    /\ (Exec(10) /\ prev.registers[PC].hi = 0 /\ prev.registers[PC].lo <= 255)
          => /\ stdout = Append(prev.stdout, prev.registers[PC].lo)
             /\ status = "running"
    /\ (Exec(10) /\ ~(prev.registers[PC].hi = 0 /\ prev.registers[PC].lo <= 255))
          => (Faulted /\ stdout = prev.stdout)
    /\ (prev.ran /\ ~Exec(10)) => stdout = prev.stdout
    /\ ~prev.ran => stdout = << >>

\* a second byte, different from the first, in program order
C12_Witness ==
    /\ Exec(10)
    /\ Len(stdout) = 2
    /\ stdout[1] # stdout[2]
    /\ stdout[2] = prev.registers[PC].lo


\* C13: an input takes the first waiting byte off standard input and loads it
\* (0..255) into R[C]; at end of input it loads 0xFFFFFFFF; either way the
\* loop runs on; no other cycle consumes input.
C13_InputOneByte ==
    /\ (Exec(11) /\ Len(prev.stdin) > 0)
          => /\ registers = [prev.registers EXCEPT ![PC] = W(0, prev.stdin[1])]
             /\ prev.stdin[1] \in 0..255
             /\ stdin = SubSeq(prev.stdin, 2, Len(prev.stdin))
             /\ status = "running"
    /\ (Exec(11) /\ Len(prev.stdin) = 0)
          => /\ registers = [prev.registers EXCEPT ![PC] = W(65535, 65535)]
             /\ stdin = << >>
             /\ status = "running"
    /\ (prev.ran /\ ~Exec(11)) => stdin = prev.stdin

\* end of input after every waiting byte was read
C13_Witness ==
    /\ Exec(11)
    /\ prev.stdin = << >>
    /\ Len(prev.stdout) = 2
    /\ registers[PC] = U32Max
    /\ status = "running"


\* x - y for x >= y
Minus(x, y) ==
    LET borrow == IF x.lo < y.lo THEN 1 ELSE 0
    IN  W(x.hi - y.hi - borrow, (x.lo + (borrow * Half)) - y.lo)

\* q * y does not exceed 32 bits
ProductFits(q, y) ==
    /\ q.hi = 0 \/ y.hi = 0
    /\ Mul16(q.hi, y.lo).hi = 0
    /\ Mul16(q.lo, y.hi).hi = 0
    /\ Mul16(q.lo, y.lo).hi + Mul16(q.hi, y.lo).lo + Mul16(q.lo, y.hi).lo < Half

\* q is the truncating quotient of x by y # 0:  q * y <= x < q * y + y
IsQuotient(q, x, y) ==
    /\ ProductFits(q, y)
    /\ Geq(x, WrappingMul(q, y))
    /\ ~Geq(Minus(x, WrappingMul(q, y)), y)

\* C14: a division by R[C] = 0 faults and leaves the registers as they were;
\* otherwise R[A] becomes the truncating unsigned quotient of R[B] by R[C],
\* the other registers keep their values and the loop runs on.
C14_Division ==
    /\ (Exec(5) /\ prev.registers[PC] = Zero)
          => (Faulted /\ registers = prev.registers)
    /\ (Exec(5) /\ prev.registers[PC] # Zero)
          => /\ status = "running"
             /\ IsQuotient(registers[PA], prev.registers[PB], prev.registers[PC])
             /\ \A r \in Regs \ { PA } : registers[r] = prev.registers[r]

\* 0xFFFFFFFF / 5 = 0x33333333
C14_Witness ==
    /\ Exec(5)
    /\ prev.registers[PB] = U32Max
    /\ prev.registers[PC] = W(0, 5)
    /\ registers[PA] = W(13107, 13107)


\* s = (x + y) mod 2^32: either s - x = y, or the sum wrapped and
\* x - s = 2^32 - y
IsSum(s, x, y) ==
    \/ Geq(s, x) /\ Minus(s, x) = y
    \/ ~Geq(s, x) /\ y # Zero /\ Minus(U32Max, Minus(x, s)) = Minus(y, W(0, 1))

\* the i-th byte of a u32, i = 0 the lowest
ByteOf(x, i) ==
    IF i = 0 THEN x.lo % Byte
    ELSE IF i = 1 THEN x.lo \div Byte
    ELSE IF i = 2 THEN x.hi % Byte
    ELSE x.hi \div Byte

\* (x * y) mod 2^32 by long multiplication on bytes
LongMul(x, y) ==
    LET col(n) == IF n = 0 THEN ByteOf(x, 0) * ByteOf(y, 0)
                  ELSE IF n = 1 THEN (ByteOf(x, 0) * ByteOf(y, 1)) + (ByteOf(x, 1) * ByteOf(y, 0))
                  ELSE IF n = 2 THEN (ByteOf(x, 0) * ByteOf(y, 2)) + (ByteOf(x, 1) * ByteOf(y, 1))
                                     + (ByteOf(x, 2) * ByteOf(y, 0))
                  ELSE (ByteOf(x, 0) * ByteOf(y, 3)) + (ByteOf(x, 1) * ByteOf(y, 2))
                       + (ByteOf(x, 2) * ByteOf(y, 1)) + (ByteOf(x, 3) * ByteOf(y, 0))
        t0 == col(0)
        t1 == col(1) + (t0 \div Byte)
        t2 == col(2) + (t1 \div Byte)
        t3 == col(3) + (t2 \div Byte)
    IN  W((t2 % Byte) + (Byte * (t3 % Byte)), (t0 % Byte) + (Byte * (t1 % Byte)))

\* C15: an addition sets R[A] to (R[B] + R[C]) mod 2^32 and a multiplication
\* sets it to (R[B] * R[C]) mod 2^32; neither faults; every register always
\* holds a value in [0, 2^32).
C15_ArithmeticWraps ==
    /\ Exec(3)
          => /\ status = "running"
             /\ IsSum(registers[PA], prev.registers[PB], prev.registers[PC])
             /\ \A r \in Regs \ { PA } : registers[r] = prev.registers[r]
    /\ Exec(4)
          => /\ status = "running"
             /\ registers[PA] = LongMul(prev.registers[PB], prev.registers[PC])
             /\ \A r \in Regs \ { PA } : registers[r] = prev.registers[r]
    /\ \A r \in Regs : registers[r].hi \in 0..(Half - 1) /\ registers[r].lo \in 0..(Half - 1)

\* a sum that wrapped
C15_Witness ==
    /\ Exec(3)
    /\ status = "running"
    /\ ~Geq(registers[PA], prev.registers[PB])


\* C16: a load value writes the 25-bit immediate (bits 24..0, zero-extended)
\* to the register named by bits 27..25 and changes no other register;
\* bits 8..0 select no register.
C16_LoadImmediate ==
    Exec(13) =>
        LET dest == (prev.instruction.hi \div 512) % 8
            imm  == W(prev.instruction.hi % 512, prev.instruction.lo)
        IN  /\ registers = [prev.registers EXCEPT ![dest] = imm]
            /\ registers[dest].hi < 512
            /\ memory = prev.memory
            /\ status = "running"

\* an immediate with its high bits set, its low bits naming other registers
C16_Witness ==
    /\ Exec(13)
    /\ registers[7] = W(511, 65107)
    /\ PA # 7 /\ PB # 7 /\ PC # 7
    /\ \A r \in 0..6 : registers[r] = Zero


\* C17: with a non-empty free list a map places the identifier pushed last in
\* R[B], removes it from the free list and leaves the table length as it was;
\* with an empty free list it appends the segment and places the previous
\* table length in R[B]; the table grows in that case only and never shrinks.
C17_LifoReuse ==
    /\ (Exec(8) /\ Len(prev.unmap_index_values) > 0)
          => /\ registers[PB] = prev.unmap_index_values[Len(prev.unmap_index_values)]
             /\ unmap_index_values =
                    SubSeq(prev.unmap_index_values, 1, Len(prev.unmap_index_values) - 1)
             /\ Len(memory) = Len(prev.memory)
    /\ (Exec(8) /\ Len(prev.unmap_index_values) = 0)
          => /\ registers[PB] = W(0, Len(prev.memory))
             /\ Len(memory) = Len(prev.memory) + 1
             /\ unmap_index_values = << >>
             /\ status = "running"
    /\ (prev.ran /\ ~Exec(8)) => Len(memory) = Len(prev.memory)

\* two different identifiers on the free list, the one pushed last reused
C17_Witness ==
    /\ Exec(8)
    /\ status = "running"
    /\ Len(prev.unmap_index_values) = 2
    /\ prev.unmap_index_values[1] # prev.unmap_index_values[2]
    /\ registers[PB] = prev.unmap_index_values[2]


\* C18: after a cycle with an opcode other than 12 that neither halts nor
\* faults the program counter is one more than at the fetch; after opcode 12
\* it is the value R[C] held, with or without a clone.
C18_ProgramCounterUpdate ==
    /\ (prev.ran /\ prev.fetched /\ ~Exec(12) /\ status = "running")
          => program_counter = W(prev.program_counter.hi, prev.program_counter.lo + 1)
    /\ Exec(12) => program_counter = prev.registers[PC]

\* a jump to a word other than the first
C18_Witness ==
    /\ Exec(12)
    /\ status = "running"
    /\ prev.registers[PC] # Zero
    /\ program_counter = prev.registers[PC]


\* ------------------------------------------------------------ a cycle as a function
\* what the engine shows: the machine state, and how the process stands
Observed ==
    [ registers |-> registers, memory |-> memory,
      unmap_index_values |-> unmap_index_values,
      program_counter |-> program_counter, stdin |-> stdin, stdout |-> stdout,
      status |-> status,
      exit |-> IF exit_code = -1 THEN "none"
               ELSE IF exit_code = 0 THEN "zero" ELSE "nonzero" ]

\* the state one cycle leads to from the state s when the word fetched is w,
\* read from w's opcode (bits 31..28) and, for opcodes 0..12, its bits 8..0
\* alone, or, for opcode 13, its bits 27..0
Expected(s, w) ==
    LET k == w.hi \div 4096
        x == (w.lo \div 64) % 8
        y == (w.lo \div 8) % 8
        z == w.lo % 8
        r == s.registers
        m == s.memory
        f == s.unmap_index_values
        run == [ registers |-> r, memory |-> m, unmap_index_values |-> f,
                 program_counter |->
                     W(s.program_counter.hi, s.program_counter.lo + 1),
                 stdin |-> s.stdin, stdout |-> s.stdout,
                 status |-> "running", exit |-> "none" ]
        Fault(t) == [t EXCEPT !.status = "halted", !.exit = "nonzero"]
        Valid(id) == id.hi = 0 /\ id.lo < Len(m)
        Within(id, i) == Valid(id) /\ i.hi = 0 /\ i.lo < Len(m[id.lo + 1])
        zeros == [i \in 1..r[z].lo |-> Zero]
    IN  CASE k = 0 -> IF r[z] # Zero THEN [run EXCEPT !.registers[x] = r[y]] ELSE run
          [] k = 1 -> IF Within(r[y], r[z])
                      THEN [run EXCEPT !.registers[x] = m[r[y].lo + 1][r[z].lo + 1]]
                      ELSE Fault(run)
          [] k = 2 -> IF Within(r[x], r[y])
                      THEN [run EXCEPT !.memory[r[x].lo + 1][r[y].lo + 1] = r[z]]
                      ELSE Fault(run)
          [] k = 3 -> [run EXCEPT !.registers[x] = WrappingAdd(r[y], r[z])]
          [] k = 4 -> [run EXCEPT !.registers[x] = LongMul(r[y], r[z])]
          [] k = 5 -> IF r[z] = Zero THEN Fault(run)
                      ELSE [run EXCEPT !.registers[x] = Div(r[y], r[z])]
          [] k = 6 -> [run EXCEPT !.registers[x] = Nand(r[y], r[z])]
          [] k = 7 -> [run EXCEPT !.status = "halted", !.exit = "zero"]
          [] k = 8 -> IF Len(f) > 0
                      THEN LET id == f[Len(f)]
                               popped == [run EXCEPT
                                            !.registers[y] = id,
                                            !.unmap_index_values = SubSeq(f, 1, Len(f) - 1)]
                           IN  IF Valid(id)
                               THEN [popped EXCEPT !.memory[id.lo + 1] = zeros]
                               ELSE Fault(popped)
                      ELSE [run EXCEPT !.memory = Append(m, zeros),
                                       !.registers[y] = W(0, Len(m))]
          [] k = 9 -> IF r[z] = Zero THEN Fault(run)
                      ELSE [run EXCEPT !.unmap_index_values = Append(f, r[z])]
          [] k = 10 -> IF r[z].hi = 0 /\ r[z].lo <= 255
                       THEN [run EXCEPT !.stdout = Append(s.stdout, r[z].lo)]
                       ELSE Fault(run)
          [] k = 11 -> IF Len(s.stdin) > 0
                       THEN [run EXCEPT !.registers[z] = W(0, s.stdin[1]),
                                        !.stdin = Tail(s.stdin)]
                       ELSE [run EXCEPT !.registers[z] = U32Max]
          [] k = 12 -> LET jump == [run EXCEPT !.program_counter = r[z]]
                       IN  IF r[y] = Zero THEN jump
                           ELSE IF Valid(r[y])
                           THEN [jump EXCEPT !.memory[1] = m[r[y].lo + 1]]
                           ELSE Fault(jump)
          [] k = 13 -> [run EXCEPT !.registers[(w.hi \div 512) % 8] =
                                        W(w.hi % 512, w.lo)]
          [] OTHER -> run

\* w with bits 27..9 cleared
Canon(w) == W((w.hi \div 4096) * 4096, w.lo % 512)

\* C19: for opcodes 0..12 the state after a cycle is a function of the state
\* before it, the opcode and bits 8..0 of the word: it is the state the word
\* with bits 27..9 cleared leads to, so two words that differ in bits 27..9
\* only lead to the same state.
C19_UnusedBitsIgnored ==
    (prev.ran /\ prev.fetched /\ get(OP, prev.instruction) <= 12)
        => Observed = Expected(prev, Canon(prev.instruction))

\* a word with bits 27..9 set that changed a register
C19_Witness ==
    /\ prev.ran /\ prev.fetched
    /\ get(OP, prev.instruction) <= 12
    /\ prev.instruction # Canon(prev.instruction)
    /\ registers # prev.registers
    /\ status = "running"

\* C20: a cycle decodes and executes the word that segment zero holds at the
\* program counter when the cycle starts, also after a store into segment
\* zero or a load program replaced the word of the loaded image.
C20_FetchFromCurrentSegmentZero ==
    (prev.ran /\ prev.fetched)
        => Observed = Expected(prev, prev.memory[1][prev.program_counter.lo + 1])

\* the halt word stored over the image's output word is the one executed
C20_Witness ==
    /\ prev.ran /\ prev.fetched
    /\ prev.program_counter.lo < Len(instructions)
    /\ instructions[prev.program_counter.lo + 1] = Std(10, 0, 0, 2)
    /\ prev.memory[1][prev.program_counter.lo + 1] = Std(7, 0, 0, 0)
    /\ status = "halted" /\ exit_code = 0
    /\ stdout = << >>

====
